---------------------------- MODULE Spec2Model ----------------------------
(***************************************************************************)
(* The album web service of web-service-gin.go: a package-level slice of   *)
(* albums and the three gin handlers getAllAlbums, addAlbum, getAlbumByID. *)
(* Under Spec every handler invocation runs to completion before the next  *)
(* one starts (requests that do not overlap).  req, resp and before record *)
(* the last request, the response written for it and the slice as the      *)
(* handler found it; added counts the addAlbum calls that answered 200;    *)
(* seen[k] is the first response to the read k since the last addAlbum     *)
(* call, and repeat says that the last request repeated such a read.       *)
(*                                                                         *)
(* Under SpecConc and SpecSeq a handler invocation is a sequence of steps  *)
(* of a goroutine: the package variable albums is the three words hdr      *)
(* (pointer, length, capacity) and the backing arrays are heap; pc and loc *)
(* are each goroutine's position and locals, cresp its last response,      *)
(* okAdds the albums whose addAlbum answered 200.  Nothing synchronises    *)
(* the goroutines, so the words are read and written one at a time.        *)
(*                                                                         *)
(* Prices are written in hundredths (56.99 is 5699).  A stored price is    *)
(* named by the number c.JSON prints for it.                               *)
(***************************************************************************)
EXTENDS Integers, Sequences, FiniteSets

VARIABLES albums, req, resp, before, added, seen, repeat,
          hdr, heap, pc, loc, cresp, ncalls, okAdds, crashed

svars == <<albums, req, resp, before, added, seen, repeat>>
cvars == <<hdr, heap, pc, loc, cresp, ncalls, okAdds, crashed>>
vars == <<albums, req, resp, before, added, seen, repeat,
          hdr, heap, pc, loc, cresp, ncalls, okAdds, crashed>>

(* Bound: the number of successful addAlbum calls of a run. *)
MaxAdds == 2

(* Bound: the number of handler invocations of a run of goroutines. *)
MaxCalls == 2

-----------------------------------------------------------------------------
(* net/http status codes used by the handlers. *)
StatusOK == 200
StatusInternalServerError == 500
StatusNotFound == 404

(* type album struct { ID, Title, Artist string; Price float32 } *)
album(id, title, artist, price) ==
    [ID |-> id, Title |-> title, Artist |-> artist, Price |-> price]

(* var a album: the zero value of the struct. *)
ZeroAlbum == album("", "", "", 0)

(* Mutant of SeedAlbums: the first two seed entries in the other order. *)
SeedAlbums_Swapped ==
    << album("48583", "Jeru", "Gerry Mulligan", 1799),
       album("48590", "Blue Train", "John Coltrane", 5699),
       album("48581", "Sarah Vaughan and Clifford Brown", "Sarah Vaughan", 3999) >>

(* var albums = []*album{...}: the seed data. *)
SeedAlbums ==
    << album("48590", "Blue Train", "John Coltrane", 5699),
       album("48583", "Jeru", "Gerry Mulligan", 1799),
       album("48581", "Sarah Vaughan and Clifford Brown", "Sarah Vaughan", 3999) >>

-----------------------------------------------------------------------------
(* Request bodies.  A body is either not JSON at all or a JSON object      *)
(* whose members id, title, artist, price are each absent, null, a JSON    *)
(* string or a JSON number.                                                *)
Absent == [t |-> "absent", s |-> "", n |-> 0]
JNull == [t |-> "null", s |-> "", n |-> 0]
JStr(s) == [t |-> "string", s |-> s, n |-> 0]
JNum(n) == [t |-> "number", s |-> "", n |-> n]

JObject(id, title, artist, price) ==
    [json |-> "object", id |-> id, title |-> title, artist |-> artist, price |-> price]

NotJSON == [json |-> "invalid", id |-> Absent, title |-> Absent, artist |-> Absent, price |-> Absent]

(* The tutorial's payload. *)
BettyCarter ==
    JObject(JStr("4"), JStr("The Modern Sound of Betty Carter"), JStr("Betty Carter"), JNum(4999))

Bodies ==
    { BettyCarter,
      \* an identifier that a seeded record already has
      JObject(JStr("48583"), JStr("Jeru (reissue)"), JStr("Gerry Mulligan"), JNum(2150)),
      \* empty strings and a negative price
      JObject(JStr(""), JStr(""), JStr(""), JNum(-500)),
      \* members left out or null
      JObject(JStr("4"), JNull, Absent, Absent),
      \* a price with more digits than a float32 holds
      JObject(JStr("5"), JStr("Giant Steps"), JStr("John Coltrane"), JNum(1677721700)),
      \* type mismatches
      JObject(JStr("6"), JStr("Kind of Blue"), JStr("Miles Davis"), JStr("12.50")),
      JObject(JNum(700), JStr("Kind of Blue"), JStr("Miles Davis"), JNum(1250)),
      NotJSON }

(* Values of the :id path parameter.  The router matches /albums/:id only  *)
(* with a non-empty segment.                                               *)
ParamIDs == {"48590", "48583", "48581", "4", "2", "999"}

-----------------------------------------------------------------------------
(* Price float32: the JSON number n (hundredths) as the float32 field      *)
(* holds it, named by the number c.JSON prints for that float32.           *)
(* A decimal of at most 6 significant digits survives float32 unchanged;   *)
(* a whole number beyond 2^24 is rounded to the nearest even neighbour.    *)
(* Covered: numbers below 10000.00 and whole numbers up to 2^25; Bodies    *)
(* draws prices from these only.                                           *)
Float32Digits == 6
Float32Mantissa == 24

RECURSIVE Pow(_, _)
Pow(b, e) == IF e = 0 THEN 1 ELSE b * Pow(b, e - 1)

Abs(n) == IF n < 0 THEN -n ELSE n

RoundWhole(w) ==
    IF w <= Pow(2, Float32Mantissa) THEN w
    ELSE LET q == w \div 2
         IN IF w % 2 = 0 THEN w
            ELSE IF q % 2 = 0 THEN 2 * q ELSE 2 * (q + 1)

Float32(n) ==
    LET m == Abs(n)
        r == IF m < Pow(10, Float32Digits) THEN m
             ELSE 100 * RoundWhole(m \div 100)
    IN IF n < 0 THEN -r ELSE r

-----------------------------------------------------------------------------
(* c.ShouldBindJSON(&a): encoding/json decodes the body into the struct    *)
(* through its json tags and reports the first failure.  A member that is  *)
(* absent or null leaves its field at the zero value; a JSON value of the  *)
(* wrong type is an error.  The struct has no binding tags, so nothing is  *)
(* validated after decoding.                                               *)
NoErr == ""
SyntaxErr == "invalid character in request body"
TypeErr == "json: cannot unmarshal value into Go struct field of album"

StringFieldOK(v) == v.t \in {"absent", "null", "string"}
FloatFieldOK(v) == v.t \in {"absent", "null", "number"}

StringField(v) == IF v.t = "string" THEN v.s ELSE ""
FloatField(v) == IF v.t = "number" THEN Float32(v.n) ELSE 0

ShouldBindJSON(b) ==
    IF b.json # "object" THEN [err |-> SyntaxErr, a |-> ZeroAlbum]
    ELSE IF ~(/\ StringFieldOK(b.id) /\ StringFieldOK(b.title)
              /\ StringFieldOK(b.artist) /\ FloatFieldOK(b.price))
         THEN [err |-> TypeErr, a |-> ZeroAlbum]
         ELSE [err |-> NoErr,
               a |-> album(StringField(b.id), StringField(b.title),
                           StringField(b.artist), FloatField(b.price))]

-----------------------------------------------------------------------------
(* c.JSON(status, value): the response written. *)
JSONList(status, list) == [status |-> status, body |-> [tag |-> "list", list |-> list]]
JSONAlbum(status, a) == [status |-> status, body |-> [tag |-> "album", album |-> a]]
JSONH(status, key, value) ==
    [status |-> status, body |-> [tag |-> "H", key |-> key, value |-> value]]

NoResp == [status |-> 0, body |-> [tag |-> "none"]]
NoReq == [op |-> "none", id |-> "", body |-> NotJSON]

ReadKeys == {"all"} \cup ParamIDs

(* The goroutines that serve requests: two run addAlbum, one runs          *)
(* getAlbumByID and one getAllAlbums.                                      *)
Adders == {"a1", "a2"}
Getters == {"g1"}
Listers == {"l1"}
Procs == Adders \cup Getters \cup Listers

(* A nil pointer, and what a read past the end of a backing array finds. *)
Nil == [ptr |-> "nil"]
Wild == [ptr |-> "wild"]

Words == {"ptr", "len", "cap"}
NoWords == [ptr |-> 0, len |-> 0, cap |-> 0]
NoFill == [arr |-> 0, at |-> 0]

IdleLoc ==
    [op |-> "none", id |-> "", a |-> ZeroAlbum, view |-> NoWords, out |-> NoWords,
     todo |-> {}, new |-> NoWords, fill |-> NoFill, k |-> 0, writes |-> 0,
     visits |-> <<>>]

InitC ==
    /\ hdr = [ptr |-> 1, len |-> Len(SeedAlbums), cap |-> Len(SeedAlbums)]
    /\ heap = <<SeedAlbums>>
    /\ pc = [p \in Procs |-> "idle"]
    /\ loc = [p \in Procs |-> IdleLoc]
    /\ cresp = [p \in Procs |-> NoResp]
    /\ ncalls = 0
    /\ okAdds = <<>>
    /\ crashed = FALSE

InitS ==
    /\ albums = SeedAlbums
    /\ req = NoReq
    /\ resp = NoResp
    /\ before = SeedAlbums
    /\ added = 0
    /\ seen = [k \in ReadKeys |-> NoResp]
    /\ repeat = FALSE

Init ==
    /\ InitS
    /\ InitC

(* getAllAlbums: c.JSON(http.StatusOK, albums) *)
getAllAlbumsResp(s) == JSONList(StatusOK, s)

(* Mutant of getAllAlbums: the handler turns the slice around in place     *)
(* (newest first) before it writes it.                                     *)
Reverse(s) == [k \in 1..Len(s) |-> s[Len(s) + 1 - k]]

getAllAlbums_Reversing ==
    /\ req' = [op |-> "getAllAlbums", id |-> "", body |-> NotJSON]
    /\ before' = albums
    /\ albums' = Reverse(albums)
    /\ resp' = getAllAlbumsResp(albums')
    /\ seen' = [seen EXCEPT !["all"] = IF @ = NoResp THEN resp' ELSE @]
    /\ repeat' = (seen["all"] # NoResp)
    /\ UNCHANGED added

getAllAlbums ==
    /\ req' = [op |-> "getAllAlbums", id |-> "", body |-> NotJSON]
    /\ before' = albums
    /\ resp' = getAllAlbumsResp(albums)
    /\ albums' = albums
    /\ seen' = [seen EXCEPT !["all"] = IF @ = NoResp THEN resp' ELSE @]
    /\ repeat' = (seen["all"] # NoResp)
    /\ UNCHANGED added

(* getAlbumByID: for _, a := range albums { if a.ID == id { 200, a; return } } *)
(* and after the loop 404.  Scan(s, id, k) is the loop from index k on.        *)
NotFound == JSONH(StatusNotFound, "message", "item not found")

RECURSIVE Scan(_, _, _)
Scan(s, id, k) ==
    IF k > Len(s) THEN NotFound
    ELSE IF s[k].ID = id THEN JSONAlbum(StatusOK, s[k])
    ELSE Scan(s, id, k + 1)

(* Mutant of getAlbumByIDResp: the loop starts at the second element. *)
getAlbumByIDResp_SkipFirst(s, id) == Scan(s, id, 2)

(* Mutant of getAlbumByIDResp: the loop runs from the last element down. *)
RECURSIVE ScanDown(_, _, _)
ScanDown(s, id, k) ==
    IF k < 1 THEN NotFound
    ELSE IF s[k].ID = id THEN JSONAlbum(StatusOK, s[k])
    ELSE ScanDown(s, id, k - 1)

getAlbumByIDResp_LastMatch(s, id) == ScanDown(s, id, Len(s))

getAlbumByIDResp(s, id) == Scan(s, id, 1)

(* Mutant of getAlbumByID: the handler takes the record it returns out of  *)
(* the slice.                                                              *)
Remove(s, k) == SubSeq(s, 1, k - 1) \o SubSeq(s, k + 1, Len(s))

getAlbumByID_Taking(id) ==
    /\ req' = [op |-> "getAlbumByID", id |-> id, body |-> NotJSON]
    /\ before' = albums
    /\ resp' = getAlbumByIDResp(albums, id)
    /\ albums' = IF \E k \in 1..Len(albums) : albums[k].ID = id
                 THEN Remove(albums, CHOOSE k \in 1..Len(albums) :
                                /\ albums[k].ID = id
                                /\ \A j \in 1..(k - 1) : albums[j].ID # id)
                 ELSE albums
    /\ seen' = [seen EXCEPT ![id] = IF @ = NoResp THEN resp' ELSE @]
    /\ repeat' = (seen[id] # NoResp)
    /\ UNCHANGED added

getAlbumByID(id) ==
    /\ req' = [op |-> "getAlbumByID", id |-> id, body |-> NotJSON]
    /\ before' = albums
    /\ resp' = getAlbumByIDResp(albums, id)
    /\ albums' = albums
    /\ seen' = [seen EXCEPT ![id] = IF @ = NoResp THEN resp' ELSE @]
    /\ repeat' = (seen[id] # NoResp)
    /\ UNCHANGED added

(* addAlbum: bind the body; on error 500 and return; otherwise append the   *)
(* new album to the slice and answer 200 with the slice.  AddResult is the  *)
(* slice and the response the handler leaves.                               *)
(* Mutant of AddResult: the new album is put in front of the slice. *)
AddResult_Prepend(s, b) ==
    LET d == ShouldBindJSON(b)
    IN IF d.err # NoErr
       THEN [albums |-> s, resp |-> JSONH(StatusInternalServerError, "error", d.err)]
       ELSE LET t == <<d.a>> \o s
            IN [albums |-> t, resp |-> JSONList(StatusOK, t)]

(* Mutant of AddResult: the append comes before the error check. *)
AddResult_AppendFirst(s, b) ==
    LET d == ShouldBindJSON(b)
        t == Append(s, d.a)
    IN IF d.err # NoErr
       THEN [albums |-> t, resp |-> JSONH(StatusInternalServerError, "error", d.err)]
       ELSE [albums |-> t, resp |-> JSONList(StatusOK, t)]

(* Mutant of AddResult: a is one package-level variable, so every pointer  *)
(* appended so far points at the album decoded last.                       *)
AddResult_SharedVar(s, b) ==
    LET d == ShouldBindJSON(b)
    IN IF d.err # NoErr
       THEN [albums |-> s, resp |-> JSONH(StatusInternalServerError, "error", d.err)]
       ELSE LET t == [k \in 1..(Len(s) + 1) |->
                        IF k <= Len(SeedAlbums) THEN s[k] ELSE d.a]
            IN [albums |-> t, resp |-> JSONList(StatusOK, t)]

(* Mutant of AddResult: the handler validates the album and refuses an     *)
(* identifier that is empty or taken and a negative price.                 *)
AddResult_Validating(s, b) ==
    LET d == ShouldBindJSON(b)
    IN IF \/ d.err # NoErr
          \/ d.a.ID = "" \/ d.a.Price < 0
          \/ \E k \in 1..Len(s) : s[k].ID = d.a.ID
       THEN [albums |-> s, resp |-> JSONH(StatusInternalServerError, "error", "invalid album")]
       ELSE LET t == Append(s, d.a)
            IN [albums |-> t, resp |-> JSONList(StatusOK, t)]

(* Mutant of AddResult: the response is written before the append. *)
AddResult_RespondFirst(s, b) ==
    LET d == ShouldBindJSON(b)
    IN IF d.err # NoErr
       THEN [albums |-> s, resp |-> JSONH(StatusInternalServerError, "error", d.err)]
       ELSE [albums |-> Append(s, d.a), resp |-> JSONList(StatusOK, s)]

(* Mutant of AddResult: the new album overwrites the last element. *)
AddResult_Overwrite(s, b) ==
    LET d == ShouldBindJSON(b)
    IN IF d.err # NoErr
       THEN [albums |-> s, resp |-> JSONH(StatusInternalServerError, "error", d.err)]
       ELSE LET t == [s EXCEPT ![Len(s)] = d.a]
            IN [albums |-> t, resp |-> JSONList(StatusOK, t)]

AddResult(s, b) ==
    LET d == ShouldBindJSON(b)
    IN IF d.err # NoErr
       THEN [albums |-> s, resp |-> JSONH(StatusInternalServerError, "error", d.err)]
       ELSE LET t == Append(s, d.a)
            IN [albums |-> t, resp |-> JSONList(StatusOK, t)]

addAlbum(b) ==
    /\ ShouldBindJSON(b).err = NoErr => added < MaxAdds
    /\ req' = [op |-> "addAlbum", id |-> "", body |-> b]
    /\ before' = albums
    /\ albums' = AddResult(albums, b).albums
    /\ resp' = AddResult(albums, b).resp
    /\ added' = IF resp'.status = StatusOK THEN added + 1 ELSE added
    /\ seen' = [k \in ReadKeys |-> NoResp]
    /\ repeat' = FALSE

Next ==
    \/ getAllAlbums /\ UNCHANGED cvars
    \/ \E id \in ParamIDs : getAlbumByID(id) /\ UNCHANGED cvars
    \/ \E b \in Bodies : addAlbum(b) /\ UNCHANGED cvars

Spec == Init /\ [][Next]_vars

(* The process is stopped and started again: the package-level variable    *)
(* albums is initialised anew and nothing of the previous run is kept.     *)
Restart_Persisting ==
    /\ req' = [op |-> "restart", id |-> "", body |-> NotJSON]
    /\ before' = albums
    /\ albums' = albums
    /\ resp' = NoResp
    /\ added' = 0
    /\ seen' = [k \in ReadKeys |-> NoResp]
    /\ repeat' = FALSE

Restart ==
    /\ req' = [op |-> "restart", id |-> "", body |-> NotJSON]
    /\ before' = albums
    /\ albums' = SeedAlbums
    /\ resp' = NoResp
    /\ added' = 0
    /\ seen' = [k \in ReadKeys |-> NoResp]
    /\ repeat' = FALSE

NextRestart ==
    \/ Next
    \/ Restart /\ UNCHANGED cvars

SpecRestart == Init /\ [][NextRestart]_vars

-----------------------------------------------------------------------------
(* The handlers as goroutine steps.  gin serves every request on its own   *)
(* goroutine; the handlers take no lock.                                   *)

(* Request bodies and :id values of the goroutines. *)
ConcBodies ==
    { BettyCarter,
      JObject(JStr("48583"), JStr("Jeru (reissue)"), JStr("Gerry Mulligan"), JNum(2150)),
      JObject(JStr("6"), JStr("Kind of Blue"), JStr("Miles Davis"), JStr("12.50")) }

ConcIDs == {"4", "48583"}

(* Element k of backing array ptr; past the end of the array the memory    *)
(* belongs to something else.                                              *)
ElemAt(ptr, k) == IF k <= Len(heap[ptr]) THEN heap[ptr][k] ELSE Wild

(* The slice a header v denotes. *)
SliceOf(v) == [k \in 1..v.len |-> ElemAt(v.ptr, k)]

(* gin.Default() installs Recovery: a handler that panics answers 500. *)
Recovered == [status |-> StatusInternalServerError, body |-> [tag |-> "none"]]

(* runtime.growslice for a slice of pointers: the capacity doubles, or is  *)
(* the new length when that is more (the size classes leave 6 and 12 as    *)
(* they are).                                                              *)
GrowCap(len, cap) == IF len + 1 > 2 * cap THEN len + 1 ELSE 2 * cap

AllIdle == \A q \in Procs : pc[q] = "idle"

(* addAlbum, lines 40-48: bind the body; on an error answer 500 and return. *)
StartAdd(p, b) ==
    /\ ~crashed /\ pc[p] = "idle" /\ ncalls < MaxCalls
    /\ ncalls' = ncalls + 1
    /\ LET d == ShouldBindJSON(b)
       IN IF d.err # NoErr
          THEN /\ cresp' = [cresp EXCEPT ![p] =
                               JSONH(StatusInternalServerError, "error", d.err)]
               /\ loc' = [loc EXCEPT ![p] =
                             [IdleLoc EXCEPT !.op = "addAlbum", !.writes = 1]]
               /\ pc' = pc
          ELSE /\ cresp' = [cresp EXCEPT ![p] = NoResp]
               /\ loc' = [loc EXCEPT ![p] =
                             [IdleLoc EXCEPT !.op = "addAlbum", !.a = d.a, !.todo = Words]]
               /\ pc' = [pc EXCEPT ![p] = "read"]
    /\ UNCHANGED <<hdr, heap, okAdds, crashed>>
    /\ UNCHANGED svars

(* getAlbumByID, line 59: id := c.Param("id"). *)
StartGet(p, id) ==
    /\ ~crashed /\ pc[p] = "idle" /\ ncalls < MaxCalls
    /\ ncalls' = ncalls + 1
    /\ cresp' = [cresp EXCEPT ![p] = NoResp]
    /\ loc' = [loc EXCEPT ![p] =
                  [IdleLoc EXCEPT !.op = "getAlbumByID", !.id = id,
                                  !.todo = {"ptr", "len"}, !.k = 1]]
    /\ pc' = [pc EXCEPT ![p] = "read"]
    /\ UNCHANGED <<hdr, heap, okAdds, crashed>>
    /\ UNCHANGED svars

(* getAllAlbums is entered. *)
StartList(p) ==
    /\ ~crashed /\ pc[p] = "idle" /\ ncalls < MaxCalls
    /\ ncalls' = ncalls + 1
    /\ cresp' = [cresp EXCEPT ![p] = NoResp]
    /\ loc' = [loc EXCEPT ![p] =
                  [IdleLoc EXCEPT !.op = "getAllAlbums", !.todo = {"ptr", "len"}]]
    /\ pc' = [pc EXCEPT ![p] = "read"]
    /\ UNCHANGED <<hdr, heap, okAdds, crashed>>
    /\ UNCHANGED svars

(* Where a goroutine goes once it has read the words of albums. *)
AfterRead(p) ==
    IF pc[p] = "reread" THEN "encode"
    ELSE IF loc[p].op = "addAlbum" THEN "append"
    ELSE IF loc[p].op = "getAlbumByID" THEN "scan"
    ELSE "encode"

(* Mutant of ReadWord: a mutex around lines 51-53 keeps a goroutine from   *)
(* reading albums while another addAlbum is between its read and its       *)
(* store.                                                                  *)
ReadWord_Locked(p, w) ==
    /\ ~crashed /\ pc[p] \in {"read", "reread"} /\ w \in loc[p].todo
    /\ \A q \in Adders \ {p} : pc[q] \notin {"append", "store"}
    /\ LET rest == loc[p].todo \ {w}
       IN /\ loc' = IF pc[p] = "read"
                    THEN [loc EXCEPT ![p].view[w] = hdr[w], ![p].todo = rest]
                    ELSE [loc EXCEPT ![p].out[w] = hdr[w], ![p].todo = rest]
          /\ pc' = IF rest = {} THEN [pc EXCEPT ![p] = AfterRead(p)] ELSE pc
    /\ UNCHANGED <<hdr, heap, cresp, ncalls, okAdds, crashed>>
    /\ UNCHANGED svars

(* One word of albums is loaded: for append(albums, ...) at line 51, for   *)
(* range albums at line 63, for c.JSON(..., albums) at lines 35 and 53.    *)
ReadWord(p, w) ==
    /\ ~crashed /\ pc[p] \in {"read", "reread"} /\ w \in loc[p].todo
    /\ LET rest == loc[p].todo \ {w}
       IN /\ loc' = IF pc[p] = "read"
                    THEN [loc EXCEPT ![p].view[w] = hdr[w], ![p].todo = rest]
                    ELSE [loc EXCEPT ![p].out[w] = hdr[w], ![p].todo = rest]
          /\ pc' = IF rest = {} THEN [pc EXCEPT ![p] = AfterRead(p)] ELSE pc
    /\ UNCHANGED <<hdr, heap, cresp, ncalls, okAdds, crashed>>
    /\ UNCHANGED svars

(* append(albums, &a), line 51, on the header the goroutine loaded: with   *)
(* room left the element goes into the same backing array, otherwise       *)
(* growslice allocates a zeroed array and copies the old elements.  The    *)
(* writes of the statement are then pending.  With room left in the header *)
(* but not in the array (a torn header), the element lands in memory of    *)
(* something else: the process faults or goes on.                          *)
AppendStep(p) ==
    /\ ~crashed /\ pc[p] = "append"
    /\ LET v == loc[p].view
       IN IF v.len < v.cap /\ v.len + 1 > Len(heap[v.ptr])
          THEN \E fault \in BOOLEAN :
                  IF fault
                  THEN /\ crashed' = TRUE
                       /\ UNCHANGED <<heap, pc, loc>>
                  ELSE /\ loc' = [loc EXCEPT
                                    ![p].new = [v EXCEPT !.len = v.len + 1],
                                    ![p].todo = {"len"}]
                       /\ pc' = [pc EXCEPT ![p] = "store"]
                       /\ UNCHANGED <<heap, crashed>>
          ELSE IF v.len < v.cap
          THEN /\ loc' = [loc EXCEPT
                            ![p].new = [v EXCEPT !.len = v.len + 1],
                            ![p].fill = [arr |-> v.ptr, at |-> v.len + 1],
                            ![p].todo = {"len", "elem"}]
               /\ pc' = [pc EXCEPT ![p] = "store"]
               /\ UNCHANGED <<heap, crashed>>
          ELSE LET c == GrowCap(v.len, v.cap)
               IN /\ heap' = Append(heap, [k \in 1..c |->
                                              IF k <= v.len THEN ElemAt(v.ptr, k) ELSE Nil])
                  /\ loc' = [loc EXCEPT
                               ![p].new = [ptr |-> Len(heap) + 1, len |-> v.len + 1,
                                           cap |-> c],
                               ![p].fill = [arr |-> Len(heap) + 1, at |-> v.len + 1],
                               ![p].todo = Words \cup {"elem"}]
                  /\ pc' = [pc EXCEPT ![p] = "store"]
                  /\ UNCHANGED crashed
    /\ UNCHANGED <<hdr, cresp, ncalls, okAdds>>
    /\ UNCHANGED svars

(* The next pending write in the order the statement is compiled to: cap,  *)
(* ptr, len of albums, then the new element.                               *)
NextStore(todo) ==
    IF "cap" \in todo THEN "cap"
    ELSE IF "ptr" \in todo THEN "ptr"
    ELSE IF "len" \in todo THEN "len"
    ELSE "elem"

(* One pending write of line 51 reaches memory: one word of albums, or the *)
(* new element.  Between two of them any other goroutine may run.          *)
StoreWord(p, w) ==
    /\ ~crashed /\ pc[p] = "store" /\ w = NextStore(loc[p].todo) /\ w \in loc[p].todo
    /\ IF w = "elem"
       THEN /\ heap' = [heap EXCEPT ![loc[p].fill.arr][loc[p].fill.at] = loc[p].a]
            /\ UNCHANGED hdr
       ELSE /\ hdr' = [hdr EXCEPT ![w] = loc[p].new[w]]
            /\ UNCHANGED heap
    /\ LET rest == loc[p].todo \ {w}
       IN IF rest = {}
          THEN /\ loc' = [loc EXCEPT ![p].todo = {"ptr", "len"}]
               /\ pc' = [pc EXCEPT ![p] = "reread"]
          ELSE /\ loc' = [loc EXCEPT ![p].todo = rest]
               /\ pc' = pc
    /\ UNCHANGED <<cresp, ncalls, okAdds, crashed>>
    /\ UNCHANGED svars

(* c.JSON(http.StatusOK, albums), lines 35 and 53, on the header loaded: a *)
(* nil pointer is encoded as null; a pointer read past the end of an array *)
(* faults or is encoded as whatever it points to.  The locals of line 51   *)
(* are dead once the handler returns.                                      *)
Encode(p) ==
    /\ ~crashed /\ pc[p] = "encode"
    /\ LET v == IF loc[p].op = "addAlbum" THEN loc[p].out ELSE loc[p].view
           list == SliceOf(v)
       IN \E fault \in IF \E k \in 1..Len(list) : list[k] = Wild
                       THEN {TRUE, FALSE} ELSE {FALSE} :
             IF fault
             THEN /\ crashed' = TRUE
                  /\ UNCHANGED <<pc, loc, cresp, okAdds>>
             ELSE /\ cresp' = [cresp EXCEPT ![p] = JSONList(StatusOK, list)]
                  /\ loc' = [loc EXCEPT ![p].writes = @ + 1, ![p].new = NoWords,
                                        ![p].fill = NoFill, ![p].out = NoWords]
                  /\ pc' = [pc EXCEPT ![p] = "idle"]
                  /\ okAdds' = IF loc[p].op = "addAlbum"
                               THEN Append(okAdds, loc[p].a) ELSE okAdds
                  /\ UNCHANGED crashed
    /\ UNCHANGED <<hdr, heap, ncalls>>
    /\ UNCHANGED svars

(* Mutant of ScanStep: the return after c.JSON(http.StatusOK, a) is        *)
(* missing, so the loop goes on after a match.                             *)
ScanStep_NoReturn(p) ==
    /\ ~crashed /\ pc[p] = "scan"
    /\ LET v == loc[p].view
           k == loc[p].k
       IN IF k > v.len
          THEN /\ cresp' = [cresp EXCEPT ![p] = NotFound]
               /\ loc' = [loc EXCEPT ![p].writes = @ + 1]
               /\ pc' = [pc EXCEPT ![p] = "idle"]
          ELSE IF ElemAt(v.ptr, k) \in {Nil, Wild}
          THEN /\ cresp' = [cresp EXCEPT ![p] = Recovered]
               /\ loc' = [loc EXCEPT ![p].writes = @ + 1, ![p].visits = Append(@, k)]
               /\ pc' = [pc EXCEPT ![p] = "idle"]
          ELSE IF ElemAt(v.ptr, k).ID = loc[p].id
          THEN /\ cresp' = [cresp EXCEPT ![p] = JSONAlbum(StatusOK, ElemAt(v.ptr, k))]
               /\ loc' = [loc EXCEPT ![p].writes = @ + 1, ![p].visits = Append(@, k),
                                     ![p].k = k + 1]
               /\ pc' = pc
          ELSE /\ loc' = [loc EXCEPT ![p].visits = Append(@, k), ![p].k = k + 1]
               /\ UNCHANGED <<pc, cresp>>
    /\ UNCHANGED <<hdr, heap, ncalls, okAdds, crashed>>
    /\ UNCHANGED svars

(* One turn of the loop of getAlbumByID, lines 63-69, over the header      *)
(* loaded when the loop started: past the last element answer 404;         *)
(* a.ID on a nil pointer panics (Recovery answers 500); a pointer read     *)
(* past the end of an array is nil, or faults, or is compared as whatever  *)
(* it points to; on a match answer 200 with the element and return.        *)
ScanStep(p) ==
    /\ ~crashed /\ pc[p] = "scan"
    /\ LET v == loc[p].view
           k == loc[p].k
           e == ElemAt(v.ptr, k)
       IN IF k > v.len
          THEN /\ cresp' = [cresp EXCEPT ![p] = NotFound]
               /\ loc' = [loc EXCEPT ![p].writes = @ + 1]
               /\ pc' = [pc EXCEPT ![p] = "idle"]
               /\ UNCHANGED crashed
          ELSE IF e = Nil
          THEN /\ cresp' = [cresp EXCEPT ![p] = Recovered]
               /\ loc' = [loc EXCEPT ![p].writes = @ + 1, ![p].visits = Append(@, k)]
               /\ pc' = [pc EXCEPT ![p] = "idle"]
               /\ UNCHANGED crashed
          ELSE IF e = Wild
          THEN \E o \in {"nil", "fault", "match", "differ"} :
                  IF o = "nil"
                  THEN /\ cresp' = [cresp EXCEPT ![p] = Recovered]
                       /\ loc' = [loc EXCEPT ![p].writes = @ + 1,
                                             ![p].visits = Append(@, k)]
                       /\ pc' = [pc EXCEPT ![p] = "idle"]
                       /\ UNCHANGED crashed
                  ELSE IF o = "fault"
                  THEN /\ crashed' = TRUE
                       /\ UNCHANGED <<pc, loc, cresp>>
                  ELSE IF o = "match"
                  THEN /\ cresp' = [cresp EXCEPT ![p] = JSONAlbum(StatusOK, e)]
                       /\ loc' = [loc EXCEPT ![p].writes = @ + 1,
                                             ![p].visits = Append(@, k)]
                       /\ pc' = [pc EXCEPT ![p] = "idle"]
                       /\ UNCHANGED crashed
                  ELSE /\ loc' = [loc EXCEPT ![p].visits = Append(@, k),
                                             ![p].k = k + 1]
                       /\ UNCHANGED <<pc, cresp, crashed>>
          ELSE IF e.ID = loc[p].id
          THEN /\ cresp' = [cresp EXCEPT ![p] = JSONAlbum(StatusOK, e)]
               /\ loc' = [loc EXCEPT ![p].writes = @ + 1, ![p].visits = Append(@, k)]
               /\ pc' = [pc EXCEPT ![p] = "idle"]
               /\ UNCHANGED crashed
          ELSE /\ loc' = [loc EXCEPT ![p].visits = Append(@, k), ![p].k = k + 1]
               /\ UNCHANGED <<pc, cresp, crashed>>
    /\ UNCHANGED <<hdr, heap, ncalls, okAdds>>
    /\ UNCHANGED svars

(* The steps of goroutine p after it has entered its handler. *)
Run(p) ==
    \/ \E w \in Words : ReadWord(p, w)
    \/ p \in Adders /\ AppendStep(p)
    \/ \E w \in Words \cup {"elem"} : p \in Adders /\ StoreWord(p, w)
    \/ Encode(p)
    \/ p \in Getters /\ ScanStep(p)

(* Requests overlap: any goroutine may take its next step. *)
NextConc ==
    \/ \E p \in Adders, b \in ConcBodies : StartAdd(p, b)
    \/ \E p \in Getters, id \in ConcIDs : StartGet(p, id)
    \/ \E p \in Listers : StartList(p)
    \/ \E p \in Procs : Run(p)

SpecConc == Init /\ [][NextConc]_vars

(* Requests do not overlap: a handler is entered when no other is running; *)
(* the scheduler lets every goroutine that can take a step take it.        *)
NextSeq ==
    \/ \E p \in Adders, b \in ConcBodies : AllIdle /\ StartAdd(p, b)
    \/ \E p \in Getters, id \in ConcIDs : AllIdle /\ StartGet(p, id)
    \/ \E p \in Listers : AllIdle /\ StartList(p)
    \/ \E p \in Procs : Run(p)

SpecSeq == Init /\ [][NextSeq]_vars /\ \A p \in Procs : WF_vars(Run(p))

-----------------------------------------------------------------------------
(* What the last request was. *)
IsAdd == req.op = "addAlbum"
IsGetAll == req.op = "getAllAlbums"
IsGetByID == req.op = "getAlbumByID"

(* What list-all answers in the current state. *)
ListAll == getAllAlbumsResp(albums)

(* A well-formed payload: a JSON object that gives all four members, each  *)
(* of the JSON type of its field, with values the field types hold         *)
(* exactly (the price is a number a float32 prints back unchanged).        *)
WellFormed(b) ==
    /\ b.json = "object"
    /\ b.id.t = "string" /\ b.title.t = "string" /\ b.artist.t = "string"
    /\ b.price.t = "number" /\ Float32(b.price.n) = b.price.n

(* The four members a well-formed payload submits. *)
Submitted(b) == album(b.id.s, b.title.s, b.artist.s, b.price.n)

(* The payload cannot be decoded into the record shape: it is not JSON, or *)
(* a member has a JSON type its field does not take.                       *)
Undecodable(b) ==
    \/ b.json # "object"
    \/ b.id.t = "number" \/ b.title.t = "number" \/ b.artist.t = "number"
    \/ b.price.t = "string"

(* The positions of s whose record has identifier id. *)
Matches(s, id) == {k \in 1..Len(s) : s[k].ID = id}

C2_Rejection ==
    (IsAdd /\ Undecodable(req.body)) =>
        /\ resp.status = StatusInternalServerError
        /\ resp.body.tag = "H" /\ resp.body.key = "error"
        /\ albums = before

C2_Witness ==
    /\ IsAdd /\ req.body.json = "object" /\ req.body.price.t = "string"
    /\ resp.status = StatusInternalServerError
    /\ Len(before) > Len(SeedAlbums)

(* C3 (lookup property): getAlbumByID answers 200 with a record that has   *)
(* the identifier asked for when some record of the collection has it, and *)
(* 404 with the not-found message when none has.                           *)
C3_Lookup ==
    IsGetByID =>
        IF Matches(before, req.id) # {}
        THEN /\ resp.status = StatusOK
             /\ resp.body.tag = "album"
             /\ resp.body.album.ID = req.id
        ELSE /\ resp.status = StatusNotFound
             /\ resp.body.tag = "H" /\ resp.body.key = "message"

C3_Witness ==
    /\ IsGetByID /\ req.id = "4" /\ resp.status = StatusOK
    /\ seen["999"].status = StatusNotFound
    /\ seen["48590"].status = StatusOK

(* C4 (first match wins): when several records have the identifier asked   *)
(* for, getAlbumByID returns the one at the lowest position.               *)
C4_FirstMatch ==
    (IsGetByID /\ Cardinality(Matches(before, req.id)) > 1) =>
        /\ resp.status = StatusOK
        /\ resp.body.tag = "album"
        /\ \E k \in Matches(before, req.id) :
              /\ \A j \in Matches(before, req.id) : k <= j
              /\ resp.body.album = before[k]

C4_Witness ==
    /\ IsGetByID /\ req.id = "48583"
    /\ \E j, k \in Matches(before, req.id) : before[j] # before[k]

(* C5 (seed property): before any addAlbum, list-all answers 200 with      *)
(* exactly three records: Blue Train, Jeru, Sarah Vaughan and Clifford     *)
(* Brown, in that order.                                                   *)
C5_Seed ==
    (IsGetAll /\ added = 0) =>
        /\ resp.status = StatusOK
        /\ resp.body.tag = "list"
        /\ Len(resp.body.list) = 3
        /\ resp.body.list[1].Title = "Blue Train"
        /\ resp.body.list[2].Title = "Jeru"
        /\ resp.body.list[3].Title = "Sarah Vaughan and Clifford Brown"

C5_Witness == IsGetAll /\ added = 0 /\ resp.status = StatusOK

(* s is a prefix of t. *)
IsPrefix(s, t) == Len(s) <= Len(t) /\ SubSeq(t, 1, Len(s)) = s

(* C6 (append-only store): every step leaves the collection it found as a  *)
(* prefix of the collection it leaves, so no record is updated, reordered  *)
(* or deleted, and the collection changes only in a step that is an        *)
(* addAlbum answering 200.                                                 *)
C6_AppendOnly ==
    [][ /\ IsPrefix(albums, albums')
        /\ albums' # albums => (req'.op = "addAlbum" /\ resp'.status = StatusOK) ]_vars

C6_Witness ==
    /\ IsAdd /\ resp.status = StatusOK /\ added = 2
    /\ Len(albums) = Len(before) + 1 /\ IsPrefix(before, albums)

(* C7 (reads have no side effects): after getAllAlbums and after           *)
(* getAlbumByID, whether it answered 200 or 404, the collection is the one *)
(* the handler found.                                                      *)
C7_ReadsNoSideEffect == (IsGetAll \/ IsGetByID) => albums = before

C7_Witness ==
    /\ IsGetByID /\ resp.status = StatusNotFound
    /\ seen["all"].status = StatusOK /\ seen["48581"].status = StatusOK
    /\ added > 0

(* C8 (idempotence of reads): a getAllAlbums, or a getAlbumByID with the   *)
(* same identifier, that is repeated with no addAlbum in between answers   *)
(* with the status and body of the first of these calls.                   *)
C8_ReadsIdempotent ==
    repeat => resp = seen[IF IsGetAll THEN "all" ELSE req.id]

C8_Witness ==
    /\ repeat /\ IsGetByID /\ resp.status = StatusOK /\ added > 0
    /\ seen["all"] # NoResp /\ seen["999"].status = StatusNotFound

(* C9: when addAlbum succeeds, it answers 201 Created with the JSON of the *)
(* one album just added, not the whole list.                               *)
StatusCreated == 201

C9_Created ==
    (IsAdd /\ resp.status # StatusInternalServerError) =>
        /\ resp.status = StatusCreated
        /\ resp.body.tag = "album"
        /\ resp.body.album = albums[Len(albums)]

(* C10: on a fresh instance getAlbumByID("2") answers 200 with the record  *)
(* {id 2, Jeru, Gerry Mulligan, 17.99}, the seeded records carrying the    *)
(* identifiers 1, 2, 3.                                                    *)
C10_SeedIdentifiers ==
    (IsGetByID /\ req.id = "2" /\ added = 0) =>
        /\ resp.status = StatusOK
        /\ resp.body.tag = "album"
        /\ resp.body.album = album("2", "Jeru", "Gerry Mulligan", 1799)
        /\ [k \in 1..Len(albums) |-> albums[k].ID] = <<"1", "2", "3">>

(* C11: getAlbumByID with an identifier that no record has answers 404    *)
(* with the body {"message": "album not found"}.                           *)
C11_AlbumNotFound ==
    (IsGetByID /\ Matches(before, req.id) = {}) =>
        /\ resp.status = StatusNotFound
        /\ resp.body = [tag |-> "H", key |-> "message", value |-> "album not found"]

(* C12 (nothing survives a restart): after the process has stopped and     *)
(* started again the collection is exactly the three seeded records in     *)
(* seeded order, whatever addAlbum calls succeeded in the run before.      *)
C12_RestartReseeds ==
    req.op = "restart" =>
        /\ Len(albums) = 3
        /\ albums[1] = album("48590", "Blue Train", "John Coltrane", 5699)
        /\ albums[2] = album("48583", "Jeru", "Gerry Mulligan", 1799)
        /\ albums[3] = album("48581", "Sarah Vaughan and Clifford Brown", "Sarah Vaughan", 3999)
        /\ ListAll.body.list = albums

C12_Witness == req.op = "restart" /\ Len(before) = 3 + MaxAdds

(* C13 (no semantic validation): every payload that decodes into the       *)
(* record shape is accepted and appended, also one whose identifier a      *)
(* record of the collection already has, one with empty identifier, title  *)
(* or artist, and one with a negative price.                               *)
C13_NoValidation ==
    (IsAdd /\ ~Undecodable(req.body)) =>
        /\ resp.status = StatusOK
        /\ Len(albums) = Len(before) + 1
        /\ IsPrefix(before, albums)
        /\ req.body.id.t = "string" => albums[Len(albums)].ID = req.body.id.s
        /\ req.body.title.t = "string" => albums[Len(albums)].Title = req.body.title.s
        /\ req.body.artist.t = "string" => albums[Len(albums)].Artist = req.body.artist.s
        /\ req.body.price.t = "number" => albums[Len(albums)].Price = Float32(req.body.price.n)

C13_Witness ==
    /\ IsAdd /\ resp.status = StatusOK
    /\ req.body.id = JStr("") /\ req.body.title = JStr("") /\ req.body.artist = JStr("")
    /\ req.body.price.t = "number" /\ req.body.price.n < 0
    /\ Cardinality(Matches(before, "48583")) = 2

(* The shared collection as the three words of albums denote it. *)
Collection == SliceOf(hdr)

(* Goroutine p has run addAlbum and answered 200. *)
AddedOK(p) ==
    /\ pc[p] = "idle" /\ loc[p].op = "addAlbum" /\ cresp[p].status = StatusOK

(* C14: every operation is one atomic step: when handler invocations that  *)
(* overlap have all returned, the collection is the seed followed by one   *)
(* record for every addAlbum that answered 200, each of them still in the  *)
(* collection.                                                             *)
C14_Atomic ==
    (AllIdle /\ ~crashed) =>
          /\ hdr.len = Len(SeedAlbums) + Len(okAdds)
          /\ \A k \in 1..Len(SeedAlbums) : ElemAt(hdr.ptr, k) = SeedAlbums[k]
          /\ \A i \in 1..Len(okAdds) :
                \E k \in (Len(SeedAlbums) + 1)..hdr.len : ElemAt(hdr.ptr, k) = okAdds[i]

(* C15 (unguarded read-modify-write): nothing keeps an addAlbum from       *)
(* loading albums while another addAlbum is between its load and its       *)
(* store; and when two addAlbum that loaded the same header have both      *)
(* answered 200, the collection is one record longer than that header,     *)
(* its last record being the one of either: the other record is lost.      *)
C15_Unguarded ==
    /\ \A q \in Adders, w \in Words :
          (~crashed /\ pc[q] = "read" /\ w \in loc[q].todo) => ENABLED ReadWord(q, w)
    /\ \A p, q \in Adders :
          (p # q /\ ~crashed /\ AddedOK(p) /\ AddedOK(q) /\ loc[p].view = loc[q].view)
             => /\ hdr.len = loc[p].view.len + 1
                /\ ElemAt(hdr.ptr, hdr.len) \in {loc[p].a, loc[q].a}

(* Two overlapping addAlbum have both answered 200 and the collection has  *)
(* grown by one record only.                                               *)
C15_Witness ==
    /\ ~crashed /\ AllIdle /\ Len(okAdds) = 2
    /\ \A p \in Adders : AddedOK(p) /\ loc[p].view = [ptr |-> 1, len |-> 3, cap |-> 3]
    /\ loc["a1"].a # loc["a2"].a
    /\ hdr.len = Len(SeedAlbums) + 1
    /\ Cardinality({k \in 1..hdr.len : ElemAt(hdr.ptr, k) \in {loc["a1"].a, loc["a2"].a}}) = 1

OneResponse ==
    \A p \in Procs :
       /\ pc[p] # "idle" => loc[p].writes = 0 /\ cresp[p] = NoResp
       /\ (pc[p] = "idle" /\ loc[p].op # "none") =>
             /\ loc[p].writes = 1
             /\ loc[p].op = "getAlbumByID" =>
                   /\ cresp[p] = getAlbumByIDResp(SliceOf(loc[p].view), loc[p].id)
                   /\ cresp[p].status \in {StatusOK, StatusNotFound}
             /\ loc[p].op = "addAlbum" =>
                   \/ cresp[p].status = StatusInternalServerError /\ cresp[p].body.tag = "H"
                   \/ cresp[p].status = StatusOK /\ cresp[p].body.tag = "list"
       /\ \A i, j \in 1..Len(loc[p].visits) :
             i # j => loc[p].visits[i] # loc[p].visits[j]

(* C17 (requests that do not overlap): every handler invocation returns,   *)
(* without a step that waits or starts over, and has then written exactly  *)
(* one response: getAlbumByID the 200 of the first match or the 404,       *)
(* addAlbum the 500 or the 200; the loop visits each record at most once.  *)
C17_OneResponse ==
    /\ [](~crashed /\ OneResponse)
    /\ \A p \in Procs : (pc[p] # "idle") ~> (pc[p] = "idle")

(* getAlbumByID has answered 200 from the second record after visiting two *)
(* records, and an addAlbum has answered 200.                              *)
C17_Witness ==
    \E g \in Getters, a \in Adders :
       /\ pc[g] = "idle" /\ cresp[g].status = StatusOK /\ loc[g].visits = <<1, 2>>
       /\ pc[a] = "idle" /\ cresp[a].status = StatusOK /\ loc[a].writes = 1

(* C18 (lookup stability): once getAlbumByID(i) has answered 200 with a    *)
(* record, every later getAlbumByID(i) of the same process run answers 200 *)
(* with that record, whatever addAlbum calls came in between; each seeded  *)
(* record stays retrievable by its identifier.                             *)
C18_LookupStable ==
    [][ /\ \A i \in ParamIDs :
              getAlbumByIDResp(albums, i).status = StatusOK =>
                  getAlbumByIDResp(albums', i) = getAlbumByIDResp(albums, i)
        /\ \A k \in 1..Len(SeedAlbums) :
              req'.op = "getAlbumByID" /\ req'.id = SeedAlbums[k].ID =>
                  resp' = JSONAlbum(StatusOK, SeedAlbums[k]) ]_vars

C18_Witness ==
    /\ IsGetByID /\ req.id = "48583" /\ added = 2
    /\ Cardinality(Matches(before, req.id)) = 2
    /\ resp = JSONAlbum(StatusOK, SeedAlbums[2])
    /\ seen["4"].status = StatusOK

(* C19 (length invariant, requests that do not overlap): the collection    *)
(* length is 3 plus the number of addAlbum calls that have answered 200 in *)
(* this process run; it is never below 3 and no step decreases it.         *)
C19_Length ==
    /\ Len(albums) = 3 + added
    /\ Len(albums) >= 3
    /\ req.op # "restart" => Len(albums) >= Len(before)

C19_Witness ==
    /\ IsAdd /\ resp.status = StatusInternalServerError
    /\ added = 2 /\ Len(albums) = 5

(* Exactly one addAlbum (by a) and one getAlbumByID (by g) have been       *)
(* entered, and nothing else.                                              *)
OneAddOneGet(a, g) ==
    /\ ncalls = 2
    /\ loc[a].op = "addAlbum" /\ loc[g].op = "getAlbumByID"

(* C20: a getAlbumByID that overlaps one addAlbum scans one snapshot of    *)
(* the collection: the process stays up and the response is the one        *)
(* getAlbumByID gives on the collection before the append or on the        *)
(* collection after it, so never a record that was not seeded or           *)
(* submitted.                                                              *)
C20_Snapshot ==
    \A a \in Adders, g \in Getters :
       OneAddOneGet(a, g) =>
          /\ ~crashed
          /\ (pc[g] = "idle") =>
                \/ cresp[g] = getAlbumByIDResp(SeedAlbums, loc[g].id)
                \/ /\ loc[a].writes = 0 \/ cresp[a].status = StatusOK
                   /\ cresp[g] = getAlbumByIDResp(Append(SeedAlbums, loc[a].a), loc[g].id)

=============================================================================
